---------------------------- MODULE Spec2Model ----------------------------
(***************************************************************************)
(* Request orchestration of the two front ends of swot-analyzer:           *)
(*   local  : swot-analyzer/src/App.jsx       (Tauri, invoke commands)     *)
(*   hosted : public-swot/frontend/src/App.jsx (fetch against /api/...)    *)
(* One React component per app.  A step of the model is one synchronous    *)
(* segment of a handler (from an event or a resumed await up to the next   *)
(* await), which is what the single-threaded event loop runs atomically.   *)
(* Values captured by a handler's closure are stored in its job record.    *)
(***************************************************************************)
EXTENDS Integers, Sequences, FiniteSets, TLC

\* Bounds of the exploration (not program constants).
MaxPendingChecks == 2   \* readiness checks awaiting their answer at once
MaxInFlight == 3        \* handler activations alive at once
MaxPendingDownloads == 1  \* downloadPdf activations awaiting their fetch

\* Input alphabets.
Names == {"", " ", "Acme"}        \* text typed in a questions business name
SwotNames == {"", "Acme"}         \* text typed in a SWOT business name
CsvPaths == {"acme.csv"}          \* what the CSV picker can return
PdfPaths == {"answers.pdf"}       \* what the PDF picker can return
Workflows == {"questions", "swot"}

VARIABLES
  app,              \* deployment target, fixed at start: "local" | "hosted"
  \* ---- local app (swot-analyzer/src/App.jsx) ----
  ollamaStatus, isOllamaReady, loading, loadingMessage, progress, activeTab,
  csvPath, businessName, questions,
  swotCsvPath, pdfPath, swotBusinessName, swotAnalysis,
  checks,           \* check_ollama_status calls in start order: the pending
                    \* ones and the most recently started one
  \* ---- hosted app (public-swot/frontend/src/App.jsx) ----
  questionsForm, swotForm, questionsLoading, swotLoading,
  questionsResult, swotResult,   \* <<>> for null, <<data>> otherwise
  error,                         \* <<>> for null, <<message>> otherwise
  downloads,        \* activations of downloadPdf awaiting their fetch
  errorFrom,        \* history: <<[by, ans]>>, what wrote the error on
                    \* display (a workflow's job or "download", and the
                    \* response it handled); <<>> once cleared
  \* ---- both apps ----
  readyOnce,        \* history: some readiness check has succeeded
  jobs,             \* live activations of generateQuestions / generateSwot
  alert,            \* message of the alert() raised by the last step, or ""
  lastSubmit,       \* what the last step's click on a generate button did
  lastAnswer,       \* <<[wf, ans]>>: the answer of a local generate command
                    \* the last step handled, or <<>>
  lastSave          \* <<[wf, name, content, sent]>>: what the last step's
                    \* click on a Save as PDF button handed to the save
                    \* command (sent: the command was invoked), or <<>>

localVars == <<ollamaStatus, isOllamaReady, loading, loadingMessage, progress,
               csvPath, businessName, questions,
               swotCsvPath, pdfPath, swotBusinessName, swotAnalysis, checks>>
hostedVars == <<questionsForm, swotForm, questionsLoading, swotLoading,
                questionsResult, swotResult, error, downloads, errorFrom>>
vars == <<app, localVars, hostedVars, activeTab, readyOnce, jobs, alert,
          lastSubmit, lastAnswer, lastSave>>

-----------------------------------------------------------------------------
\* JavaScript truthiness of a string: only the empty string is falsy.
Falsy(s) == s = ""

NoSubmit == [wf |-> "none", res |-> "none"]
Submitted(w, r) == [wf |-> w, res |-> r]

\* A step that handles no answer and is no click on a save button.
Silent == lastAnswer' = <<>> /\ lastSave' = <<>>

\* A step that raises no alert and is no click on a button at all.
Quiet == alert' = "" /\ lastSubmit' = NoSubmit /\ Silent

RemoveAt(s, i) == SubSeq(s, 1, i - 1) \o SubSeq(s, i + 1, Len(s))
ReplaceAt(s, i, e) == [s EXCEPT ![i] = e]

-----------------------------------------------------------------------------
\* The generation engine behind invoke(): what it answers for a request.
QuestionsFor(name) == <<"Q1 for " \o name, "Q2 for " \o name>>
SwotFor(name) == "SWOT of " \o name

\* Answers of invoke('generate_followup_questions'): a rejection, or a list
\* of questions, possibly empty.
QuestionsAnswers(name) ==
  { [status |-> "err", questions |-> <<>>, swot |-> ""],
    [status |-> "ok",  questions |-> <<>>, swot |-> ""],
    [status |-> "ok",  questions |-> QuestionsFor(name), swot |-> ""] }

\* Answers of invoke('generate_swot_analysis'): a rejection or the text.
SwotAnswers(name) ==
  { [status |-> "err", questions |-> <<>>, swot |-> ""],
    [status |-> "ok",  questions |-> <<>>, swot |-> SwotFor(name)] }

Answers(j) == IF j.wf = "questions" THEN QuestionsAnswers(j.name)
                                    ELSE SwotAnswers(j.name)

\* Progress steps shown before the generate command is invoked; the last one
\* is set in the same segment that issues the call.
QuestionsPhasesEarlyComplete ==
  << [percent |-> 20, label |-> "Finding company data..."],
     [percent |-> 40, label |-> "Preparing AI prompt..."],
     [percent |-> 100, label |-> "Complete!"] >>
QuestionsPhases ==
  << [percent |-> 20, label |-> "Finding company data..."],
     [percent |-> 40, label |-> "Preparing AI prompt..."],
     [percent |-> 60, label |-> "Generating questions with AI..."] >>
SwotPhases ==
  << [percent |-> 15, label |-> "Processing CSV data..."],
     [percent |-> 30, label |-> "Extracting PDF content..."],
     [percent |-> 50, label |-> "Analyzing company data..."],
     [percent |-> 70, label |-> "Generating SWOT analysis with AI..."] >>
Phases(w) == IF w = "questions" THEN QuestionsPhases ELSE SwotPhases

\* Progress step set right after the command has returned.
AfterCallPhaseLow(w) ==
  IF w = "questions" THEN [percent |-> 50, label |-> "Processing results..."]
                     ELSE [percent |-> 59, label |-> "Finalizing analysis..."]
AfterCallPhase(w) ==
  IF w = "questions" THEN [percent |-> 90, label |-> "Processing results..."]
                     ELSE [percent |-> 95, label |-> "Finalizing analysis..."]

\* Terminal step of the success path.
CompletePhaseStale == [percent |-> 95, label |-> "Finalizing..."]
CompletePhase == [percent |-> 100, label |-> "Complete!"]

-----------------------------------------------------------------------------
\* Local app: rendering conditions.
MainRenderedAlways == TRUE
MainRendered == isOllamaReady
RetryRendered == ~isOllamaReady
QuestionsButtonDisabledNoLoading == Falsy(csvPath) \/ Falsy(businessName)
QuestionsButtonDisabled == loading \/ Falsy(csvPath) \/ Falsy(businessName)
SwotButtonDisabledNoLoading ==
  Falsy(swotCsvPath) \/ Falsy(pdfPath) \/ Falsy(swotBusinessName)
SwotButtonDisabled ==
  loading \/ Falsy(swotCsvPath) \/ Falsy(pdfPath) \/ Falsy(swotBusinessName)
QuestionsButtonRendered == MainRendered /\ activeTab = "questions"
SwotButtonRendered == MainRendered /\ activeTab = "swot"

\* Local app: the handlers' own validation.
QuestionsInvalid == Falsy(csvPath) \/ Falsy(businessName)
SwotInvalid == Falsy(swotCsvPath) \/ Falsy(pdfPath) \/ Falsy(swotBusinessName)

\* A fresh activation of a local handler: first progress step set, sleeping
\* in the first await, request values captured by the closure.
NewLocalJob(w, csv, pdf, name) ==
  [wf |-> w, pc |-> "sleep", k |-> 1, csv |-> csv, pdf |-> pdf, name |-> name,
   status |-> "pending", questions |-> <<>>, swot |-> "", calls |-> 0]

\* Segment of a local handler from the click to its first await.
StartLocalJob(w, csv, pdf, name) ==
  /\ Len(jobs) < MaxInFlight
  /\ loading' = TRUE
  /\ progress' = Phases(w)[1].percent
  /\ loadingMessage' = Phases(w)[1].label
  /\ jobs' = Append(jobs, NewLocalJob(w, csv, pdf, name))
  /\ alert' = ""
  /\ lastSubmit' = Submitted(w, "accepted")
  /\ Silent
  /\ UNCHANGED <<app, readyOnce, hostedVars, ollamaStatus, isOllamaReady, activeTab, csvPath,
                 businessName, questions, swotCsvPath, pdfPath,
                 swotBusinessName, swotAnalysis, checks>>

\* A click that reaches no handler, or a handler that returns at once.
RejectSubmit(w, r, msg) ==
  /\ alert' = msg
  /\ lastSubmit' = Submitted(w, r)
  /\ Silent
  /\ UNCHANGED <<app, readyOnce, hostedVars, localVars, activeTab, jobs>>

\* The user, on the questions tab, goes for the Generate Questions button.
generateQuestions ==
  /\ app = "local"
  /\ activeTab = "questions"
  /\ IF ~QuestionsButtonRendered THEN RejectSubmit("questions", "hidden", "")
     ELSE IF QuestionsButtonDisabled
       THEN RejectSubmit("questions", "disabled", "")
     ELSE IF QuestionsInvalid
       THEN RejectSubmit("questions", "invalid",
              "Please select a CSV file and enter a business name")
     ELSE StartLocalJob("questions", csvPath, "", businessName)

\* The user, on the SWOT tab, goes for the Generate SWOT Analysis button.
generateSwot ==
  /\ app = "local"
  /\ activeTab = "swot"
  /\ IF ~SwotButtonRendered THEN RejectSubmit("swot", "hidden", "")
     ELSE IF SwotButtonDisabled THEN RejectSubmit("swot", "disabled", "")
     ELSE IF SwotInvalid
       THEN RejectSubmit("swot", "invalid",
              "Please select CSV file, PDF file, and enter a business name")
     ELSE StartLocalJob("swot", swotCsvPath, pdfPath, swotBusinessName)

\* Number of generate commands a segment issues when it sets phase k.
CallsIssuedAtEveryPhase(w, k) == 1
CallsIssuedAt(w, k) == IF k = Len(Phases(w)) THEN 1 ELSE 0

\* A 500 ms await of the simulated progress ends: the next progress step is
\* set; with the last step the generate command is invoked.
SleepElapsed(i) ==
  /\ app = "local"
  /\ i \in 1..Len(jobs)
  /\ jobs[i].pc = "sleep"
  /\ LET j == jobs[i]
         k == j.k + 1
     IN /\ progress' = Phases(j.wf)[k].percent
        /\ loadingMessage' = Phases(j.wf)[k].label
        /\ jobs' = ReplaceAt(jobs, i,
             [j EXCEPT !.k = k,
                       !.pc = IF k = Len(Phases(j.wf)) THEN "invoke" ELSE "sleep",
                       !.calls = @ + CallsIssuedAt(j.wf, k)])
  /\ Quiet
  /\ UNCHANGED <<app, readyOnce, hostedVars, ollamaStatus, isOllamaReady, loading, activeTab, csvPath,
                 businessName, questions, swotCsvPath, pdfPath,
                 swotBusinessName, swotAnalysis, checks>>

ErrorAlert(w) == IF w = "questions" THEN "Error generating questions"
                                    ELSE "Error generating SWOT analysis"

\* Progress after the generate command has failed: the catch block sets none.
ProgressOnFailureZero(w, before) == 0
ProgressOnFailure(w, before) == before

\* Where a local handler stands once its catch block has run: the finally
\* block has scheduled the reset timer.
PcAfterFailureNoTimer(w) == "failed"
PcAfterFailure(w) == "reset"

\* await invoke(...) resumes the try block when the command resolves and
\* enters the catch block when it rejects.
AnswerSucceedsNonEmpty(a) == a.status = "ok" /\ (a.questions # <<>> \/ a.swot # "")
AnswerSucceeds(a) == a.status = "ok"

\* invoke() of the generate command settles.
InvokeReturns(i, a) ==
  /\ app = "local"
  /\ i \in 1..Len(jobs)
  /\ jobs[i].pc = "invoke"
  /\ a \in Answers(jobs[i])
  /\ LET j == jobs[i] IN
       IF AnswerSucceeds(a)
       THEN /\ progress' = AfterCallPhase(j.wf).percent
            /\ loadingMessage' = AfterCallPhase(j.wf).label
            /\ jobs' = ReplaceAt(jobs, i,
                 [j EXCEPT !.pc = "settle", !.status = "ok",
                           !.questions = a.questions, !.swot = a.swot])
            /\ alert' = ""
       ELSE /\ progress' = ProgressOnFailure(j.wf, progress)
            /\ loadingMessage' = loadingMessage
            /\ jobs' = ReplaceAt(jobs, i,
                 [j EXCEPT !.pc = PcAfterFailure(j.wf), !.status = "err"])
            /\ alert' = ErrorAlert(j.wf)
  /\ lastSubmit' = NoSubmit
  /\ lastAnswer' = <<[wf |-> jobs[i].wf, ans |-> a]>>
  /\ lastSave' = <<>>
  /\ UNCHANGED <<app, readyOnce, hostedVars, ollamaStatus, isOllamaReady, loading, activeTab, csvPath,
                 businessName, questions, swotCsvPath, pdfPath,
                 swotBusinessName, swotAnalysis, checks>>

EmptyAlert ==
  "No questions were generated. Please check if the business name exists in the CSV file."

\* The 300 ms await after the call ends: the result is stored, progress is
\* set to 100 and the finally block schedules the reset.
SettleElapsed(i) ==
  /\ app = "local"
  /\ i \in 1..Len(jobs)
  /\ jobs[i].pc = "settle"
  /\ LET j == jobs[i] IN
       /\ questions' = IF j.wf = "questions" THEN j.questions ELSE questions
       /\ swotAnalysis' = IF j.wf = "swot" THEN j.swot ELSE swotAnalysis
       /\ progress' = CompletePhase.percent
       /\ loadingMessage' = CompletePhase.label
       /\ alert' = IF j.wf = "questions" /\ Len(j.questions) = 0
                   THEN EmptyAlert ELSE ""
       /\ jobs' = ReplaceAt(jobs, i, [j EXCEPT !.pc = "reset"])
  /\ lastSubmit' = NoSubmit
  /\ Silent
  /\ UNCHANGED <<app, readyOnce, hostedVars, ollamaStatus, isOllamaReady, loading, activeTab, csvPath,
                 businessName, swotCsvPath, pdfPath, swotBusinessName, checks>>

\* The 500 ms timer of a finally block fires.
ResetTimerFires(i) ==
  /\ app = "local"
  /\ i \in 1..Len(jobs)
  /\ jobs[i].pc = "reset"
  /\ loading' = FALSE
  /\ progress' = 0
  /\ loadingMessage' = ""
  /\ jobs' = RemoveAt(jobs, i)
  /\ Quiet
  /\ UNCHANGED <<app, readyOnce, hostedVars, ollamaStatus, isOllamaReady, activeTab, csvPath,
                 businessName, questions, swotCsvPath, pdfPath,
                 swotBusinessName, swotAnalysis, checks>>

-----------------------------------------------------------------------------
\* Local app: readiness.
ReadyAfterCheckAlways(outcome) == TRUE
ReadyAfterCheck(outcome) == outcome = "ok"
StatusAfterCheck(outcome) ==
  IF outcome = "ok" THEN "Ollama is running" ELSE "Ollama is not running"

PendingChecks == {i \in 1..Len(checks) : checks[i] = "pending"}

\* The check list after a new check has started.
StartCheck(cs) ==
  Append(IF Len(cs) > 0 /\ cs[Len(cs)] # "pending"
         THEN SubSeq(cs, 1, Len(cs) - 1) ELSE cs, "pending")

\* The check list after check i has answered.
ResolveCheck(cs, i, outcome) ==
  IF i = Len(cs) THEN ReplaceAt(cs, i, outcome) ELSE RemoveAt(cs, i)

\* Click on Retry Connection.
RetryConnection ==
  /\ app = "local"
  /\ RetryRendered
  /\ Cardinality(PendingChecks) < MaxPendingChecks
  /\ checks' = StartCheck(checks)
  /\ Quiet
  /\ UNCHANGED <<app, readyOnce, hostedVars, ollamaStatus, isOllamaReady, loading, loadingMessage,
                 progress, activeTab, csvPath, businessName, questions,
                 swotCsvPath, pdfPath, swotBusinessName, swotAnalysis, jobs>>

\* invoke('check_ollama_status') settles.
checkOllamaStatus(i, outcome) ==
  /\ app = "local"
  /\ i \in PendingChecks
  /\ ollamaStatus' = StatusAfterCheck(outcome)
  /\ isOllamaReady' = ReadyAfterCheck(outcome)
  /\ checks' = ResolveCheck(checks, i, outcome)
  /\ readyOnce' = (readyOnce \/ outcome = "ok")
  /\ Quiet
  /\ UNCHANGED <<app, hostedVars, loading, loadingMessage, progress, activeTab, csvPath,
                 businessName, questions, swotCsvPath, pdfPath,
                 swotBusinessName, swotAnalysis, jobs>>

-----------------------------------------------------------------------------
\* Local app: form edits and tabs, possible while the main area is rendered.
SetActiveTab(t) ==
  /\ app = "local"
  /\ MainRendered
  /\ activeTab' = t
  /\ Quiet
  /\ UNCHANGED <<app, readyOnce, hostedVars, localVars, jobs>>

selectCsvFile(p) ==
  /\ app = "local"
  /\ \/ /\ QuestionsButtonRendered
        /\ csvPath' = p
        /\ UNCHANGED swotCsvPath
     \/ /\ SwotButtonRendered
        /\ swotCsvPath' = p
        /\ UNCHANGED csvPath
  /\ Quiet
  /\ UNCHANGED <<app, readyOnce, hostedVars, ollamaStatus, isOllamaReady, loading, loadingMessage,
                 progress, activeTab, businessName, questions, pdfPath,
                 swotBusinessName, swotAnalysis, checks, jobs>>

selectPdfFile(p) ==
  /\ app = "local"
  /\ SwotButtonRendered
  /\ pdfPath' = p
  /\ Quiet
  /\ UNCHANGED <<app, readyOnce, hostedVars, ollamaStatus, isOllamaReady, loading, loadingMessage,
                 progress, activeTab, csvPath, businessName, questions,
                 swotCsvPath, swotBusinessName, swotAnalysis, checks, jobs>>

setBusinessName(n) ==
  /\ app = "local"
  /\ QuestionsButtonRendered
  /\ businessName' = n
  /\ Quiet
  /\ UNCHANGED <<app, readyOnce, hostedVars, ollamaStatus, isOllamaReady, loading, loadingMessage,
                 progress, activeTab, csvPath, questions, swotCsvPath, pdfPath,
                 swotBusinessName, swotAnalysis, checks, jobs>>

setSwotBusinessName(n) ==
  /\ app = "local"
  /\ SwotButtonRendered
  /\ swotBusinessName' = n
  /\ Quiet
  /\ UNCHANGED <<app, readyOnce, hostedVars, ollamaStatus, isOllamaReady, loading, loadingMessage,
                 progress, activeTab, csvPath, businessName, questions,
                 swotCsvPath, pdfPath, swotAnalysis, checks, jobs>>

-----------------------------------------------------------------------------
\* Hosted app: the backend behind fetch().
\* Numbers of questions the engine can come back with: the 50 to 100 it is
\* asked for, or a handful.
QuestionCounts == {3, 62}
Preview(name, count) ==
  [i \in 1..(IF count < 5 THEN count ELSE 5) |-> "Q for " \o name]

QuestionsData(name, count) ==
  [business_name |-> name, questions_count |-> count,
   questions_preview |-> Preview(name, count),
   pdf_id |-> "questions-" \o name]
SwotData(name) ==
  [business_name |-> name, swot_analysis |-> SwotFor(name),
   pdf_id |-> "swot-" \o name]

\* What a POST to /api/generate-* can come back with.  sent: the request got
\* an answer; json: the body parses; ok: 2xx; detail: shape of data.detail of
\* a non-2xx body ("none" | "string" | "message" | "object"); text: the
\* string detail or the message of an object detail; count: questions_count
\* of a 2xx body to a questions request.
HostedResponses ==
  [sent : {TRUE}, json : {TRUE}, ok : {TRUE}, detail : {"none"},
   text : {""}, count : QuestionCounts]
  \cup
  { [sent |-> FALSE, json |-> FALSE, ok |-> FALSE, detail |-> "none", text |-> "", count |-> 0],
    [sent |-> TRUE,  json |-> FALSE, ok |-> FALSE, detail |-> "none", text |-> "", count |-> 0],
    [sent |-> TRUE,  json |-> TRUE,  ok |-> FALSE, detail |-> "none", text |-> "", count |-> 0],
    [sent |-> TRUE,  json |-> TRUE,  ok |-> FALSE, detail |-> "string",
     text |-> "Business name not found", count |-> 0],
    [sent |-> TRUE,  json |-> TRUE,  ok |-> FALSE, detail |-> "string", text |-> "", count |-> 0],
    [sent |-> TRUE,  json |-> TRUE,  ok |-> FALSE, detail |-> "message",
     text |-> "Business name not found (message)", count |-> 0],
    [sent |-> TRUE,  json |-> TRUE,  ok |-> FALSE, detail |-> "message", text |-> "", count |-> 0],
    [sent |-> TRUE,  json |-> TRUE,  ok |-> FALSE, detail |-> "object", text |-> "", count |-> 0] }

DefaultError(w) == IF w = "questions" THEN "Error generating questions"
                                      ELSE "Error generating SWOT analysis"

\* err.message as the catch block receives it:
\* data.detail?.message || data.detail || <default>, made a string by Error().
ErrorMessageDefaultOnly(w, r) ==
  IF ~r.sent THEN "Failed to fetch"
  ELSE IF ~r.json THEN "Unexpected token < in JSON at position 0"
  ELSE DefaultError(w)
ErrorMessage(w, r) ==
  IF ~r.sent THEN "Failed to fetch"
  ELSE IF ~r.json THEN "Unexpected token < in JSON at position 0"
  ELSE LET message == IF r.detail = "message" THEN r.text ELSE ""
       IN IF ~Falsy(message) THEN message
          ELSE IF r.detail = "string" /\ ~Falsy(r.text) THEN r.text
          ELSE IF r.detail \in {"message", "object"} THEN "[object Object]"
          ELSE DefaultError(w)

HostedSucceeds(r) == r.sent /\ r.json /\ r.ok

\* Hosted app: rendering conditions.
HostedQuestionsRendered == activeTab = "questions"
HostedSwotRendered == activeTab = "swot"
HostedQuestionsDisabled ==
  \/ questionsLoading \/ Falsy(questionsForm.csvFile)
  \/ Falsy(questionsForm.businessName) \/ Falsy(questionsForm.apiKey)
HostedSwotDisabledShared ==
  \/ questionsLoading
  \/ swotLoading \/ Falsy(swotForm.csvFile) \/ Falsy(swotForm.pdfFile)
  \/ Falsy(swotForm.businessName) \/ Falsy(swotForm.apiKey)
HostedSwotDisabledNoPdf ==
  \/ swotLoading \/ Falsy(swotForm.csvFile)
  \/ Falsy(swotForm.businessName) \/ Falsy(swotForm.apiKey)
HostedSwotDisabled ==
  \/ swotLoading \/ Falsy(swotForm.csvFile) \/ Falsy(swotForm.pdfFile)
  \/ Falsy(swotForm.businessName) \/ Falsy(swotForm.apiKey)

\* An activation of a hosted handler: the form data is built and the POST is
\* issued in the segment the submit event starts.
NewHostedJob(w, form) ==
  [wf |-> w, pc |-> "fetch", csv |-> form.csvFile,
   pdf |-> IF w = "swot" THEN form.pdfFile ELSE "",
   name |-> form.businessName, key |-> form.apiKey,
   status |-> "pending", calls |-> 1]

\* The error on display once a submit handler has started: setError(null).
ErrorAfterSubmitKept(w) == error
ErrorAfterSubmit(w) == <<>>

RejectHostedSubmit(w, r) ==
  /\ alert' = ""
  /\ lastSubmit' = Submitted(w, r)
  /\ Silent
  /\ UNCHANGED <<app, readyOnce, localVars, hostedVars, activeTab, jobs>>

\* Submit of the questions form, which is on screen on the questions tab.
hostedGenerateQuestions ==
  /\ app = "hosted"
  /\ HostedQuestionsRendered
  /\ IF HostedQuestionsDisabled
       THEN RejectHostedSubmit("questions", "disabled")
     ELSE /\ Len(jobs) < MaxInFlight
          /\ questionsLoading' = TRUE
          /\ error' = ErrorAfterSubmit("questions")
          /\ questionsResult' = <<>>
          /\ jobs' = Append(jobs, NewHostedJob("questions", questionsForm))
          /\ alert' = ""
          /\ errorFrom' = <<>>
          /\ lastSubmit' = Submitted("questions", "accepted")
          /\ Silent
          /\ UNCHANGED <<app, readyOnce, localVars, activeTab, questionsForm, swotForm,
                         swotLoading, swotResult, downloads>>

\* Submit of the SWOT form, which is on screen on the SWOT tab.
hostedGenerateSwot ==
  /\ app = "hosted"
  /\ HostedSwotRendered
  /\ IF HostedSwotDisabled THEN RejectHostedSubmit("swot", "disabled")
     ELSE /\ Len(jobs) < MaxInFlight
          /\ swotLoading' = TRUE
          /\ error' = ErrorAfterSubmit("swot")
          /\ swotResult' = <<>>
          /\ jobs' = Append(jobs, NewHostedJob("swot", swotForm))
          /\ alert' = ""
          /\ errorFrom' = <<>>
          /\ lastSubmit' = Submitted("swot", "accepted")
          /\ Silent
          /\ UNCHANGED <<app, readyOnce, localVars, activeTab, questionsForm, swotForm,
                         questionsLoading, questionsResult, downloads>>

\* fetch() of a generate request settles: the rest of the handler runs,
\* finally block included.
FetchReturns(i, r) ==
  /\ app = "hosted"
  /\ i \in 1..Len(jobs)
  /\ jobs[i].pc = "fetch"
  /\ r \in HostedResponses
  /\ LET j == jobs[i] IN
       /\ IF HostedSucceeds(r)
          THEN /\ questionsResult' = IF j.wf = "questions"
                                     THEN <<QuestionsData(j.name, r.count)>>
                                     ELSE questionsResult
               /\ swotResult' = IF j.wf = "swot" THEN <<SwotData(j.name)>>
                                                 ELSE swotResult
               /\ UNCHANGED <<error, errorFrom>>
          ELSE /\ error' = <<ErrorMessage(j.wf, r)>>
               /\ errorFrom' = <<[by |-> j.wf, ans |-> r]>>
               /\ UNCHANGED <<questionsResult, swotResult>>
       /\ questionsLoading' = IF j.wf = "questions" THEN FALSE
                                                    ELSE questionsLoading
       /\ swotLoading' = IF j.wf = "swot" THEN FALSE ELSE swotLoading
  /\ jobs' = RemoveAt(jobs, i)
  /\ Quiet
  /\ UNCHANGED <<app, readyOnce, localVars, activeTab, questionsForm, swotForm,
                 downloads>>

\* Hosted app: form edits and tabs.
HostedSetActiveTab(t) ==
  /\ app = "hosted"
  /\ activeTab' = t
  /\ Quiet
  /\ UNCHANGED <<app, readyOnce, localVars, hostedVars, jobs>>

HostedFiles == {"", "upload"}
HostedKeys == {"", "sk-test"}

setQuestionsForm(field, v) ==
  /\ app = "hosted"
  /\ HostedQuestionsRendered
  /\ questionsForm' = [questionsForm EXCEPT ![field] = v]
  /\ Quiet
  /\ UNCHANGED <<app, readyOnce, localVars, activeTab, swotForm, questionsLoading,
                 swotLoading, questionsResult, swotResult, error, downloads,
                 errorFrom, jobs>>

setSwotForm(field, v) ==
  /\ app = "hosted"
  /\ HostedSwotRendered
  /\ swotForm' = [swotForm EXCEPT ![field] = v]
  /\ Quiet
  /\ UNCHANGED <<app, readyOnce, localVars, activeTab, questionsForm, questionsLoading,
                 swotLoading, questionsResult, swotResult, error, downloads,
                 errorFrom, jobs>>

\* The values a form field can be given.
FieldValues(w, field) ==
  CASE field \in {"csvFile", "pdfFile"} -> HostedFiles
    [] field = "businessName" -> SwotNames
    [] field = "apiKey" -> HostedKeys

-----------------------------------------------------------------------------
\* Local app: the Save as PDF buttons, on screen next to a stored result.
SaveQuestionsRendered == QuestionsButtonRendered /\ Len(questions) > 0
SaveSwotRendered == SwotButtonRendered /\ ~Falsy(swotAnalysis)

\* How a save ends: the dialog is dismissed (save() returns null), the save
\* command resolves, or the dialog or the command rejects.
SaveOutcomes == {"cancelled", "saved", "failed"}

SaveAlert(w, o) ==
  CASE o = "cancelled" -> ""
    [] o = "saved" -> IF w = "questions" THEN "Questions saved successfully!"
                                         ELSE "SWOT analysis saved successfully!"
    [] o = "failed" -> IF w = "questions" THEN "Error saving questions"
                                          ELSE "Error saving SWOT analysis"

\* The businessName argument of the save command: the state the handler's
\* closure holds at the click.
SavedBusinessName(w) == IF w = "questions" THEN businessName
                                           ELSE swotBusinessName

\* A click on Save as PDF of the questions.  The handler reads questions and
\* businessName from its closure, awaits the dialog and the command, and
\* writes no component state: its segments are taken as one step.
saveQuestionsToPdf(o) ==
  /\ app = "local"
  /\ SaveQuestionsRendered
  /\ IF Len(questions) = 0
       THEN alert' = "No questions to save" /\ lastSave' = <<>>
     ELSE /\ alert' = SaveAlert("questions", o)
          /\ lastSave' = <<[wf |-> "questions",
                            name |-> SavedBusinessName("questions"),
                            content |-> questions, sent |-> o # "cancelled"]>>
  /\ lastSubmit' = NoSubmit
  /\ lastAnswer' = <<>>
  /\ UNCHANGED <<app, readyOnce, hostedVars, localVars, activeTab, jobs>>

\* A click on Save as PDF of the SWOT analysis.
saveSwotToPdf(o) ==
  /\ app = "local"
  /\ SaveSwotRendered
  /\ IF Falsy(swotAnalysis)
       THEN alert' = "No SWOT analysis to save" /\ lastSave' = <<>>
     ELSE /\ alert' = SaveAlert("swot", o)
          /\ lastSave' = <<[wf |-> "swot", name |-> SavedBusinessName("swot"),
                            content |-> swotAnalysis, sent |-> o # "cancelled"]>>
  /\ lastSubmit' = NoSubmit
  /\ lastAnswer' = <<>>
  /\ UNCHANGED <<app, readyOnce, hostedVars, localVars, activeTab, jobs>>

-----------------------------------------------------------------------------
\* Hosted app: the download button of a result block.
HostedDownloadRendered(w) ==
  /\ activeTab = w
  /\ IF w = "questions" THEN questionsResult # <<>> ELSE swotResult # <<>>

\* The number shown in "... et N questions supplementaires dans le PDF".
AdditionalQuestions(count) == count - 5

\* A click on a download button: downloadPdf is called with the pdf_id and
\* the file name of the result on screen and issues its GET.  The handler
\* reads neither again.
downloadPdf(w) ==
  /\ app = "hosted"
  /\ HostedDownloadRendered(w)
  /\ downloads < MaxPendingDownloads
  /\ downloads' = downloads + 1
  /\ Quiet
  /\ UNCHANGED <<app, readyOnce, localVars, activeTab, jobs, questionsForm,
                 swotForm, questionsLoading, swotLoading, questionsResult,
                 swotResult, error, errorFrom>>

\* A GET of /api/download-pdf that came back other than 2xx, or not at all.
DownloadFailed ==
  [sent |-> TRUE, json |-> FALSE, ok |-> FALSE, detail |-> "none", text |-> "",
   count |-> 0]

\* A stored result once a download of it has ended.
ResultAfterDownloadConsumed(result, ok) == IF ok THEN <<>> ELSE result
ResultAfterDownload(result, ok) == result

\* The GET of a download settles: the file is handed to the browser, or the
\* catch block reports the failure.
DownloadReturns(ok) ==
  /\ app = "hosted"
  /\ downloads > 0
  /\ downloads' = downloads - 1
  /\ IF ok THEN UNCHANGED <<error, errorFrom>>
     ELSE /\ error' = <<"Failed to download PDF">>
          /\ errorFrom' = <<[by |-> "download", ans |-> DownloadFailed]>>
  /\ questionsResult' = ResultAfterDownload(questionsResult, ok)
  /\ swotResult' = ResultAfterDownload(swotResult, ok)
  /\ Quiet
  /\ UNCHANGED <<app, readyOnce, localVars, activeTab, jobs, questionsForm,
                 swotForm, questionsLoading, swotLoading>>

-----------------------------------------------------------------------------
\* State after the component has mounted: the mount effect has started the
\* first readiness check.
Init ==
  /\ app \in {"local", "hosted"}
  /\ ollamaStatus = ""
  /\ isOllamaReady = FALSE
  /\ loading = FALSE
  /\ loadingMessage = ""
  /\ progress = 0
  /\ activeTab = "questions"
  /\ csvPath = ""
  /\ businessName = ""
  /\ questions = <<>>
  /\ swotCsvPath = ""
  /\ pdfPath = ""
  /\ swotBusinessName = ""
  /\ swotAnalysis = ""
  /\ checks = IF app = "local" THEN <<"pending">> ELSE <<>>
  /\ questionsForm = [csvFile |-> "", businessName |-> "", apiKey |-> ""]
  /\ swotForm = [csvFile |-> "", pdfFile |-> "", businessName |-> "", apiKey |-> ""]
  /\ questionsLoading = FALSE
  /\ swotLoading = FALSE
  /\ questionsResult = <<>>
  /\ swotResult = <<>>
  /\ error = <<>>
  /\ downloads = 0
  /\ errorFrom = <<>>
  /\ readyOnce = FALSE
  /\ jobs = <<>>
  /\ alert = ""
  /\ lastSubmit = NoSubmit
  /\ lastAnswer = <<>>
  /\ lastSave = <<>>

Next ==
  \/ generateQuestions
  \/ generateSwot
  \/ \E i \in 1..MaxInFlight : SleepElapsed(i)
  \/ \E i \in 1..MaxInFlight : \E a \in QuestionsAnswers("") \cup SwotAnswers("") \cup
         UNION {QuestionsAnswers(n) \cup SwotAnswers(n) : n \in Names} :
       InvokeReturns(i, a)
  \/ \E i \in 1..MaxInFlight : SettleElapsed(i)
  \/ \E i \in 1..MaxInFlight : ResetTimerFires(i)
  \/ RetryConnection
  \/ \E i \in 1..(MaxPendingChecks + 1) : \E o \in {"ok", "err"} :
       checkOllamaStatus(i, o)
  \/ \E t \in Workflows : SetActiveTab(t)
  \/ \E p \in CsvPaths : selectCsvFile(p)
  \/ \E p \in PdfPaths : selectPdfFile(p)
  \/ \E n \in Names : setBusinessName(n)
  \/ \E n \in SwotNames : setSwotBusinessName(n)
  \/ hostedGenerateQuestions
  \/ hostedGenerateSwot
  \/ \E i \in 1..MaxInFlight : \E r \in HostedResponses : FetchReturns(i, r)
  \/ \E t \in Workflows : HostedSetActiveTab(t)
  \/ \E f \in {"csvFile", "businessName", "apiKey"} :
       \E v \in FieldValues("questions", f) : setQuestionsForm(f, v)
  \/ \E f \in {"csvFile", "pdfFile", "businessName", "apiKey"} :
       \E v \in FieldValues("swot", f) : setSwotForm(f, v)
  \/ \E o \in SaveOutcomes : saveQuestionsToPdf(o)
  \/ \E o \in SaveOutcomes : saveSwotToPdf(o)
  \/ \E w \in Workflows : downloadPdf(w)
  \/ \E ok \in BOOLEAN : DownloadReturns(ok)

Spec == Init /\ [][Next]_vars

\* Timers of the event loop fire; nothing forces the engine or the backend
\* to answer, nor the user to act.
FairSpec ==
  /\ Spec
  /\ WF_vars(\E i \in 1..MaxInFlight : SleepElapsed(i))
  /\ WF_vars(\E i \in 1..MaxInFlight : SettleElapsed(i))
  /\ WF_vars(\E i \in 1..MaxInFlight : ResetTimerFires(i))

-----------------------------------------------------------------------------
\* Vocabulary of the properties below.

\* The request the form of workflow w would submit lacks a required field.
RequestIncomplete(w) ==
  IF app = "local"
  THEN IF w = "questions"
       THEN csvPath = "" \/ businessName = ""
       ELSE swotCsvPath = "" \/ pdfPath = "" \/ swotBusinessName = ""
  ELSE IF w = "questions"
       THEN \/ questionsForm.csvFile = "" \/ questionsForm.businessName = ""
            \/ questionsForm.apiKey = ""
       ELSE \/ swotForm.csvFile = "" \/ swotForm.pdfFile = ""
            \/ swotForm.businessName = "" \/ swotForm.apiKey = ""

\* The request a job carries lacks a required field.
JobIncomplete(j) ==
  \/ j.csv = "" \/ j.name = ""
  \/ (j.wf = "swot" /\ j.pdf = "")
  \/ (app = "hosted" /\ j.key = "")

JobsOf(w) == SelectSeq(jobs, LAMBDA j : j.wf = w)
Busy(w) == Len(JobsOf(w)) > 0
Other(w) == IF w = "questions" THEN "swot" ELSE "questions"

\* The submit control of workflow w is on screen.
Rendered(w) ==
  IF app = "local"
  THEN IF w = "questions" THEN QuestionsButtonRendered ELSE SwotButtonRendered
  ELSE activeTab = w

\* The flag that marks the session of workflow w as occupied.
Loading(w) ==
  IF app = "local" THEN loading
  ELSE IF w = "questions" THEN questionsLoading ELSE swotLoading

\* The stored generation result of workflow w.
StoredResult(w) ==
  IF app = "local"
  THEN IF w = "questions" THEN <<questions>> ELSE <<swotAnalysis>>
  ELSE IF w = "questions" THEN questionsResult ELSE swotResult

\* The step is a submit of workflow w, and what became of it.
SubmitStep(w) == lastSubmit'.wf = w
Accepted == lastSubmit'.res = "accepted"
Rejected ==
  /\ lastSubmit'.res \in {"hidden", "disabled", "invalid"}
  /\ jobs' = jobs
  /\ UNCHANGED <<loading, questionsLoading, swotLoading>>

-----------------------------------------------------------------------------
\* C1: a submit whose request lacks a required field is rejected in both
\* apps: it starts no job, issues no transport call and leaves the loading
\* flags as they were; every job alive carries a complete request.
C1_AllJobsComplete == \A i \in 1..Len(jobs) : ~JobIncomplete(jobs[i])
C1_InvalidSubmitStep ==
  \A w \in Workflows : (RequestIncomplete(w) /\ SubmitStep(w)) => Rejected
C1_NoTransportForInvalid ==
  [](C1_AllJobsComplete) /\ [][C1_InvalidSubmitStep]_vars

\* A SWOT submit of the hosted app with only the PDF missing was rejected.
C1_Witness ==
  /\ app = "hosted"
  /\ lastSubmit = Submitted("swot", "disabled")
  /\ swotForm.pdfFile = "" /\ swotForm.csvFile # ""
  /\ swotForm.businessName # "" /\ swotForm.apiKey # ""
  /\ ~swotLoading /\ jobs = <<>>

-----------------------------------------------------------------------------
\* C2: a session is never occupied twice: a workflow has at most one job
\* alive; while it has one, a submit of that workflow is rejected and starts
\* no second job or call; and a result stored while the job is alive is the
\* result of that job's own request.
ResultOf(j) ==
  IF app = "local"
  THEN IF j.wf = "questions" THEN <<j.questions>> ELSE <<j.swot>>
  ELSE <<SwotData(j.name)>>
\* What the engine can have produced for the request of job j.
PossibleResults(j) ==
  IF app = "local"
  THEN IF j.wf = "questions"
       THEN {<<a.questions>> : a \in {b \in QuestionsAnswers(j.name) : b.status = "ok"}}
       ELSE {<<a.swot>> : a \in {b \in SwotAnswers(j.name) : b.status = "ok"}}
  ELSE IF j.wf = "questions"
       THEN {<<QuestionsData(j.name, c)>> : c \in QuestionCounts}
       ELSE {ResultOf(j)}
C2_OneJobPerWorkflow == \A w \in Workflows : Len(JobsOf(w)) <= 1
C2_BusySubmitStep ==
  \A w \in Workflows :
    /\ (Busy(w) /\ SubmitStep(w)) => Rejected
    /\ (Busy(w) /\ StoredResult(w)' # StoredResult(w)) =>
         StoredResult(w)' \in PossibleResults(JobsOf(w)[1])
C2_NoConcurrentOccupation ==
  [](C2_OneJobPerWorkflow) /\ [][C2_BusySubmitStep]_vars

\* Local app: a questions submit with a complete form was rejected while the
\* generate command of the earlier questions job was pending.
C2_Witness ==
  /\ app = "local"
  /\ lastSubmit = Submitted("questions", "disabled")
  /\ ~RequestIncomplete("questions")
  /\ Len(jobs) = 1 /\ jobs[1].wf = "questions" /\ jobs[1].pc = "invoke"

-----------------------------------------------------------------------------
\* C3 (as stated): the two sessions never share a slot: a complete submit of
\* a workflow that has no job alive is accepted whatever the other workflow
\* is doing.
C3_IndependentSubmitStep ==
  \A w \in Workflows :
    (SubmitStep(w) /\ Rendered(w) /\ ~RequestIncomplete(w) /\ ~Busy(w))
      => Accepted
C3_Original == [][C3_IndependentSubmitStep]_vars

\* A step writes the loading flag or the stored result of workflow w only on
\* behalf of a job of w.
C3_OwnWrites(w) ==
  (Loading(w)' # Loading(w) \/ StoredResult(w)' # StoredResult(w))
    => (JobsOf(w)' # JobsOf(w) /\ JobsOf(Other(w))' = JobsOf(Other(w)))
C3_OwnResultWrites(w) ==
  StoredResult(w)' # StoredResult(w)
    => (JobsOf(w)' # JobsOf(w) /\ JobsOf(Other(w))' = JobsOf(Other(w)))

\* C3 (amended): in the hosted app the two sessions are independent (a
\* complete submit of an idle workflow is accepted while the other workflow
\* is pending, and loading flag and result of one are written only by its
\* own job); in the local app both workflows share one loading/progress
\* slot, so any job alive blocks the submit of both, and only the stored
\* results are private to a workflow.
C3_AmendedStep ==
  /\ app = "hosted" =>
       /\ C3_IndependentSubmitStep
       /\ \A w \in Workflows : C3_OwnWrites(w)
  /\ app = "local" =>
       /\ \A w \in Workflows : (SubmitStep(w) /\ Len(jobs) > 0) => Rejected
       /\ \A w \in Workflows : C3_OwnResultWrites(w)
C3_Amended == [][C3_AmendedStep]_vars

\* Hosted app: a SWOT submit was accepted while the questions request was
\* still pending.
C3_Witness ==
  /\ app = "hosted"
  /\ lastSubmit = Submitted("swot", "accepted")
  /\ questionsLoading /\ swotLoading
  /\ Len(JobsOf("questions")) = 1 /\ Len(JobsOf("swot")) = 1

-----------------------------------------------------------------------------
\* C4: while the loading flag stays set (one job's lifetime) the progress
\* percentage never decreases; it is always within 0..100 and, while a job
\* is alive, one of the percentages of that job's workflow.
PhasePercents(w) ==
  {Phases(w)[k].percent : k \in 1..Len(Phases(w))}
    \cup {AfterCallPhase(w).percent, CompletePhase.percent}
C4_InRange ==
  /\ progress \in 0..100
  /\ \A i \in 1..Len(jobs) :
       app = "local" => progress \in PhasePercents(jobs[i].wf)
C4_MonotoneStep == (loading /\ loading') => progress' >= progress
C4_ProgressMonotone == [](C4_InRange) /\ [][C4_MonotoneStep]_vars

\* Failure path of a SWOT job: the call has failed with progress at 70.
C4_Witness ==
  /\ app = "local" /\ loading /\ progress = 70
  /\ Len(jobs) = 1 /\ jobs[1].wf = "swot" /\ jobs[1].status = "err"

-----------------------------------------------------------------------------
\* The last percentage a job of workflow w shows before its call returns.
LastPercentBeforeCall(w) == Phases(w)[Len(Phases(w))].percent
NumericPhasePercents == {0} \cup PhasePercents("questions") \cup PhasePercents("swot")

C5_TerminalState ==
  \A i \in 1..Len(jobs) :
    (app = "local" /\ jobs[i].pc = "reset") =>
      /\ loading
      /\ jobs[i].status \in {"ok", "err"}
      /\ jobs[i].status = "ok" =>
           /\ progress = 100 /\ loadingMessage = "Complete!"
           /\ StoredResult(jobs[i].wf) = ResultOf(jobs[i])
      /\ jobs[i].status = "err" =>
           /\ progress = LastPercentBeforeCall(jobs[i].wf)
           /\ loadingMessage = Phases(jobs[i].wf)[Len(Phases(jobs[i].wf))].label
C5_FailureStep ==
  \A i \in 1..Len(jobs) :
    (app = "local" /\ jobs[i].pc = "invoke" /\ Len(jobs') = Len(jobs)
       /\ jobs'[i].status = "err")
      => (alert' = ErrorAlert(jobs[i].wf) /\ jobs'[i].pc = "reset")
C5_ResetStep ==
  (app = "local" /\ loading /\ ~loading') => (progress' = 0 /\ loadingMessage' = "")
-----------------------------------------------------------------------------
\* C6: progress is 100 only when the generate call of the job alive has
\* returned successfully: never while the call is pending, never after it
\* has failed.
C6_CompleteOnlyAfterSuccess ==
  progress = 100 =>
    /\ Len(jobs) > 0
    /\ \A i \in 1..Len(jobs) : jobs[i].status = "ok" /\ jobs[i].pc = "reset"

\* A SWOT job shows 100 after its call returned the analysis.
C6_Witness ==
  /\ app = "local" /\ progress = 100
  /\ Len(jobs) = 1 /\ jobs[1].wf = "swot" /\ jobs[1].status = "ok"
  /\ swotAnalysis = jobs[1].swot /\ swotAnalysis # ""

-----------------------------------------------------------------------------
\* C7: a job issues exactly one generate call over its life: none before the
\* last progress step of the local app, one from then on, and no further one
\* after a failure; a step raises the calls of at most one job, by one.
C7_CallsOf(j) ==
  IF j.pc = "sleep" THEN 0 ELSE 1
C7_OneCallPerJob ==
  \A i \in 1..Len(jobs) :
    /\ jobs[i].calls = C7_CallsOf(jobs[i])
    /\ jobs[i].status = "err" => jobs[i].pc = "reset"
C7_NoReissueStep ==
  \A i \in 1..Len(jobs) :
    (Len(jobs') = Len(jobs) /\ jobs[i].calls = 1) => jobs'[i].calls = 1
C7_ExactlyOneCall == [](C7_OneCallPerJob) /\ [][C7_NoReissueStep]_vars

\* A job whose only call has failed, waiting for release.
C7_Witness ==
  /\ app = "local"
  /\ Len(jobs) = 1 /\ jobs[1].status = "err" /\ jobs[1].calls = 1

-----------------------------------------------------------------------------
\* C8 (as stated): in no state where no readiness check has succeeded is a
\* job alive or a session occupied.
C8_Original ==
  ~readyOnce =>
    (jobs = <<>> /\ ~loading /\ ~questionsLoading /\ ~swotLoading)

\* C8 (amended): in the local app, as long as no readiness check has
\* succeeded (pending or failed), the app is not ready, no job is alive, and
\* a submit finds no button and changes nothing: no job, no call, no loading flag.
\* The hosted app has no readiness check and accepts submits without one.
C8_NotReadyState ==
  (app = "local" /\ ~readyOnce) =>
    (~isOllamaReady /\ jobs = <<>> /\ ~loading)
C8_NotReadySubmitStep ==
  \A w \in Workflows :
    (app = "local" /\ ~readyOnce /\ SubmitStep(w)) =>
      (Rejected /\ lastSubmit'.res = "hidden")
C8_Amended == [](C8_NotReadyState) /\ [][C8_NotReadySubmitStep]_vars

\* A submit was tried after the only readiness check so far had failed.
C8_Witness ==
  /\ app = "local" /\ ~readyOnce
  /\ ollamaStatus = "Ollama is not running" /\ checks = <<"err">>
  /\ lastSubmit = Submitted("questions", "hidden")

-----------------------------------------------------------------------------
\* C9: while the app is not ready the retry control is on screen and starts
\* a new check; a check that succeeds makes the app ready, and a complete
\* submit on a ready, idle app is accepted; a check that fails raises
\* nothing and leaves the app not ready with the retry control on screen.
CheckAnswered == Cardinality(PendingChecks') < Cardinality(PendingChecks)
C9_RetryAvailable ==
  (app = "local" /\ ~isOllamaReady) =>
    /\ RetryRendered
    /\ Cardinality(PendingChecks) < MaxPendingChecks => ENABLED RetryConnection
C9_CheckStep ==
  /\ (CheckAnswered /\ ollamaStatus' = StatusAfterCheck("ok")) => isOllamaReady'
  /\ (CheckAnswered /\ ollamaStatus' = StatusAfterCheck("err")) =>
       /\ ~isOllamaReady' /\ RetryRendered' /\ alert' = ""
       /\ UNCHANGED <<jobs, loading, progress>>
  /\ \A w \in Workflows :
       (app = "local" /\ isOllamaReady /\ activeTab = w /\ ~loading
          /\ ~RequestIncomplete(w) /\ SubmitStep(w)) => Accepted
C9_RetryReadiness == [](C9_RetryAvailable) /\ [][C9_CheckStep]_vars

\* A retry (the second of two checks, the first still pending) succeeded and
\* the questions submit made after it was accepted.
C9_Witness ==
  /\ app = "local" /\ isOllamaReady
  /\ checks = <<"pending", "ok">>
  /\ lastSubmit = Submitted("questions", "accepted")

-----------------------------------------------------------------------------
\* C10: every failure returns the session to idle.  A job whose call has
\* failed eventually ends, and the step that ends it clears its loading flag
\* (in the hosted app that is the very step the failure is handled); a
\* complete submit on a released, rendered session is accepted; and an
\* accepted job that has not issued its transport call yet eventually does,
\* moving only forward through its progress steps until then.
Failed(w) == \E i \in 1..Len(jobs) : jobs[i].wf = w /\ jobs[i].status = "err"
AnyFailed == \E w \in Workflows : Failed(w)
AnyUncalled == \E i \in 1..Len(jobs) : jobs[i].calls = 0
C10_ReleaseStep ==
  \A w \in Workflows :
    /\ (Failed(w) /\ ~Failed(w)') => ~Loading(w)'
    /\ (app = "hosted" /\ Len(JobsOf(w)') < Len(JobsOf(w))) => ~Loading(w)'
    /\ (SubmitStep(w) /\ Rendered(w) /\ ~RequestIncomplete(w) /\ ~Loading(w))
         => (Accepted /\ Len(JobsOf(w)') = 1 /\ Loading(w)')
    /\ \A i \in 1..Len(jobs) :
         (jobs[i].calls = 0 /\ jobs' # jobs) =>
           (Len(jobs') = Len(jobs) /\ jobs'[i].calls \in {0, 1}
              /\ jobs'[i].k > jobs[i].k)
C10_FailureReturnsToIdle ==
  /\ AnyFailed ~> ~AnyFailed
  /\ AnyUncalled ~> ~AnyUncalled
  /\ [][C10_ReleaseStep]_vars

\* Hosted app: a request failed in the network, the sessions are released
\* and the questions form is ready for a fresh submit.
C10_Witness ==
  /\ app = "hosted"
  /\ error = <<"Failed to fetch">>
  /\ ~questionsLoading /\ ~swotLoading /\ jobs = <<>>
  /\ Rendered("questions") /\ ~RequestIncomplete("questions")

-----------------------------------------------------------------------------
\* A field value that is absent, empty or made of whitespace only.
IsBlank(s) == s \in {"", " "}
RequestBlank(w) ==
  IF app = "local"
  THEN IF w = "questions"
       THEN IsBlank(csvPath) \/ IsBlank(businessName)
       ELSE IsBlank(swotCsvPath) \/ IsBlank(pdfPath) \/ IsBlank(swotBusinessName)
  ELSE IF w = "questions"
       THEN \/ IsBlank(questionsForm.csvFile) \/ IsBlank(questionsForm.businessName)
            \/ IsBlank(questionsForm.apiKey)
       ELSE \/ IsBlank(swotForm.csvFile) \/ IsBlank(swotForm.pdfFile)
            \/ IsBlank(swotForm.businessName) \/ IsBlank(swotForm.apiKey)

\* C11 (as stated): validation accepts a request only when every required
\* field is present and non-empty, a whitespace-only string counting as
\* empty: a submit whose request has a blank field is rejected.
C11_BlankSubmitStep ==
  \A w \in Workflows : (RequestBlank(w) /\ SubmitStep(w)) => Rejected
C11_Original == [][C11_BlankSubmitStep]_vars

-----------------------------------------------------------------------------
\* A generation request of workflow w was answered, in this step, with a
\* non-2xx status and a JSON body whose detail is a string or an object with
\* a message.
AnsweredWithDetail(w) ==
  /\ app = "hosted"
  /\ errorFrom' # errorFrom
  /\ errorFrom' # <<>>
  /\ errorFrom'[1].by = w
  /\ LET r == errorFrom'[1].ans
     IN r.sent /\ r.json /\ ~r.ok /\ r.detail \in {"string", "message"}
DetailText == errorFrom'[1].ans.text
FailedWithText(w) ==
  /\ error' = <<DetailText>>
  /\ StoredResult(w)' = <<>>
  /\ ~Loading(w)' /\ ~Busy(w)'

\* C12 (as stated): a non-2xx answer whose detail is a string or an object
\* with a message ends the job with exactly that text on display, no result
\* stored and the session released.
C12_OriginalStep == \A w \in Workflows : AnsweredWithDetail(w) => FailedWithText(w)
C12_Original == [][C12_OriginalStep]_vars

\* C12 (amended): a non-2xx answer whose detail is a non-empty string or an
\* object with a non-empty message ends the job with exactly that text on
\* display, no result stored and the session released.  An empty string
\* detail shows the default message of the workflow instead, an object with
\* an empty message shows "[object Object]"; in both cases too no result is
\* stored and the session is released.
C12_AmendedStep ==
  \A w \in Workflows :
    AnsweredWithDetail(w) =>
      IF DetailText # "" THEN FailedWithText(w)
      ELSE /\ error' = <<IF errorFrom'[1].ans.detail = "string"
                         THEN DefaultError(w) ELSE "[object Object]">>
           /\ StoredResult(w)' = <<>>
           /\ ~Loading(w)' /\ ~Busy(w)'
C12_Amended == [][C12_AmendedStep]_vars

\* The SWOT request was answered 422 {detail: "Business name not found"}:
\* the text is on display, no SWOT result is stored, the session is idle.
C12_Witness ==
  /\ app = "hosted"
  /\ errorFrom # <<>>
  /\ errorFrom[1].by = "swot"
  /\ errorFrom[1].ans.detail = "string"
  /\ error = <<"Business name not found">>
  /\ swotResult = <<>>
  /\ ~swotLoading /\ ~Busy("swot")

-----------------------------------------------------------------------------
\* The step in which the success of a job of workflow w is handled: in the
\* local app the segment after the 300 ms await, in the hosted app the one
\* that stores the response.
SuccessStep(w) ==
  IF app = "local"
  THEN /\ Len(JobsOf(w)) = 1 /\ JobsOf(w)[1].pc = "settle"
       /\ Len(JobsOf(w)') = 1 /\ JobsOf(w)'[1].pc = "reset"
  ELSE StoredResult(w) = <<>> /\ StoredResult(w)' # <<>>

\* C13 (as stated): the step that stores the result of a successful job
\* leaves the session occupied, so that the terminal display is visible in
\* a state of its own before the release.
C13_OriginalStep ==
  \A w \in Workflows : SuccessStep(w) => (Loading(w)' /\ Busy(w)')
C13_Original == [][C13_OriginalStep]_vars

\* C13 (amended): in the local app the step that stores the result sets
\* progress to 100 and the label to "Complete!" and leaves the loading flag
\* set and the job alive, waiting for its reset timer; whenever 100 is on
\* display the slot is occupied; and the release is a later step, taken from
\* such a state.  In the hosted app, which has no progress display, the
\* result is stored and the loading flag cleared in one and the same step.
C13_LocalStoreStep ==
  \A w \in Workflows :
    (app = "local" /\ SuccessStep(w)) =>
      /\ progress' = 100 /\ loadingMessage' = "Complete!"
      /\ loading /\ loading'
      /\ StoredResult(w)' = ResultOf(JobsOf(w)[1])
C13_LocalReleaseStep ==
  (app = "local" /\ progress = 100 /\ progress' # 100) =>
    (loading /\ ~loading' /\ progress' = 0 /\ jobs' = <<>>)
C13_CompleteVisible ==
  (app = "local" /\ (progress = 100 \/ loadingMessage = "Complete!")) =>
    /\ loading /\ progress = 100 /\ loadingMessage = "Complete!"
    /\ Len(jobs) = 1 /\ jobs[1].pc = "reset" /\ jobs[1].status = "ok"
C13_HostedStoreStep ==
  \A w \in Workflows :
    (app = "hosted" /\ SuccessStep(w)) => (~Loading(w)' /\ ~Busy(w)')
C13_Amended ==
  /\ [](C13_CompleteVisible)
  /\ [][C13_LocalStoreStep /\ C13_LocalReleaseStep /\ C13_HostedStoreStep]_vars

\* Local app: the questions of the job are stored and "Complete!" is on
\* display at 100 while the loading flag is still set.
C13_Witness ==
  /\ app = "local" /\ loading
  /\ progress = 100 /\ loadingMessage = "Complete!"
  /\ Len(jobs) = 1 /\ jobs[1].wf = "questions" /\ jobs[1].pc = "reset"
  /\ questions = jobs[1].questions /\ Len(questions) > 0

-----------------------------------------------------------------------------
\* The step is a click on a Save as PDF or download button of workflow w,
\* or the end of a download.
SaveClick(w) ==
  \/ app = "local" /\ lastSave' # <<>> /\ lastSave'[1].wf = w
  \/ app = "hosted" /\ downloads' = downloads + 1 /\ activeTab = w
DownloadEnds == app = "hosted" /\ downloads' = downloads - 1
SaveRendered(w) ==
  IF app = "local"
  THEN IF w = "questions" THEN SaveQuestionsRendered ELSE SaveSwotRendered
  ELSE HostedDownloadRendered(w)

\* C14: saving or downloading never invalidates the artifact.  A click on a
\* save or download button, however the save ends, and the end of a
\* download, successful or failed, leave both stored results (pdf_id
\* included) as they are, and the button that was clicked is still on screen
\* afterwards.
C14_SaveStep ==
  /\ \A w \in Workflows :
       SaveClick(w) =>
         /\ StoredResult("questions")' = StoredResult("questions")
         /\ StoredResult("swot")' = StoredResult("swot")
         /\ SaveRendered(w) /\ SaveRendered(w)'
  /\ DownloadEnds =>
       /\ StoredResult("questions")' = StoredResult("questions")
       /\ StoredResult("swot")' = StoredResult("swot")
       /\ \A w \in Workflows : SaveRendered(w) => SaveRendered(w)'
C14_SaveKeepsResult == [][C14_SaveStep]_vars

\* Hosted app: a download of the questions PDF has failed and the result,
\* with its pdf_id, is still on screen with its download button.
C14_Witness ==
  /\ app = "hosted"
  /\ error = <<"Failed to download PDF">>
  /\ downloads = 0
  /\ questionsResult # <<>>
  /\ questionsResult[1].pdf_id = "questions-Acme"
  /\ HostedDownloadRendered("questions")

-----------------------------------------------------------------------------
\* The generate_followup_questions command resolved, in this step, with an
\* empty list.
AnsweredEmpty ==
  /\ app = "local"
  /\ lastAnswer' # <<>>
  /\ lastAnswer'[1].wf = "questions"
  /\ lastAnswer'[1].ans.status = "ok"
  /\ lastAnswer'[1].ans.questions = <<>>
EmptyJob(j) ==
  j.wf = "questions" /\ j.status = "ok" /\ j.questions = <<>>

\* C15: zero questions are a warning, not a failure.  The step that handles
\* the empty answer takes the success path (no error alert, progress moves
\* on to 90, the job awaits its 300 ms pause); the step after it stores the
\* empty list, shows 100 / "Complete!" and raises the warning, never the
\* error alert; and the job then waits for the same reset timer as any
\* successful job, whose firing releases the session.
C15_AnswerStep ==
  AnsweredEmpty =>
    /\ alert' = ""
    /\ progress' = AfterCallPhase("questions").percent
    /\ Len(jobs') = 1 /\ EmptyJob(jobs'[1]) /\ jobs'[1].pc = "settle"
    /\ loading'
C15_SettleStep ==
  \A i \in 1..Len(jobs) :
    (app = "local" /\ EmptyJob(jobs[i]) /\ jobs' # jobs) =>
      IF jobs[i].pc = "settle"
      THEN /\ alert' = EmptyAlert
           /\ progress' = 100 /\ loadingMessage' = "Complete!"
           /\ questions' = <<>>
           /\ loading'
           /\ Len(jobs') = 1 /\ EmptyJob(jobs'[1]) /\ jobs'[1].pc = "reset"
      ELSE /\ jobs[i].pc = "reset"
           /\ progress = 100
           /\ jobs' = <<>> /\ ~loading' /\ progress' = 0 /\ alert' = ""
C15_WarningStep ==
  (app = "local" /\ alert' = EmptyAlert) =>
    \E i \in 1..Len(jobs) : EmptyJob(jobs[i]) /\ jobs[i].pc = "settle"
C15_EmptyIsWarning ==
  [][C15_AnswerStep /\ C15_SettleStep /\ C15_WarningStep]_vars

\* The warning has just been raised: the empty list is stored, 100 /
\* "Complete!" is on display and the job waits for its reset timer.
C15_Witness ==
  /\ app = "local" /\ alert = EmptyAlert
  /\ loading /\ progress = 100 /\ loadingMessage = "Complete!"
  /\ questions = <<>>
  /\ Len(jobs) = 1 /\ EmptyJob(jobs[1]) /\ jobs[1].pc = "reset"

-----------------------------------------------------------------------------
\* C16 (as stated): the number of additional questions shown under the
\* preview of a stored questions result is never negative.
C16_Original ==
  (app = "hosted" /\ questionsResult # <<>>) =>
    AdditionalQuestions(questionsResult[1].questions_count) >= 0

-----------------------------------------------------------------------------
\* C17: in the local app the reset of a finished job fires before any later
\* job can start.  A job waiting for its reset timer is the only job alive
\* and holds the loading flag; until the timer fires every submit is
\* rejected; the step that clears the loading flag or takes progress back
\* to 0 is the reset of the one job alive, which ends with it; and a
\* job that starts finds no other job and no pending reset.
C17_ResetAlone ==
  \A i \in 1..Len(jobs) :
    (app = "local" /\ jobs[i].pc = "reset") => (Len(jobs) = 1 /\ loading)
C17_ResetStep ==
  /\ (app = "local" /\ ((loading /\ ~loading') \/ (progress # 0 /\ progress' = 0))) =>
       /\ Len(jobs) = 1 /\ jobs[1].pc = "reset"
       /\ jobs' = <<>>
  /\ \A w \in Workflows :
       (app = "local" /\ SubmitStep(w) /\ Accepted) =>
         (jobs = <<>> /\ ~loading /\ Len(jobs') = 1)
  /\ \A w \in Workflows :
       (app = "local" /\ SubmitStep(w) /\ jobs # <<>>) => Rejected
C17_ResetBeforeNextJob == [](C17_ResetAlone) /\ [][C17_ResetStep]_vars

\* A second job is in flight after the first one has ended and has been
\* reset: the stored SWOT analysis is the first job's, the questions job
\* is at its first progress step.
C17_Witness ==
  /\ app = "local" /\ loading /\ progress = 20
  /\ swotAnalysis # ""
  /\ Len(jobs) = 1 /\ jobs[1].wf = "questions" /\ jobs[1].pc = "sleep"

-----------------------------------------------------------------------------
\* C18 (as stated): once every readiness check has answered, the readiness
\* flag and the status text are those of the check that was started last.
C18_Original ==
  (app = "local" /\ PendingChecks = {} /\ checks # <<>>) =>
    /\ isOllamaReady = ReadyAfterCheck(checks[Len(checks)])
    /\ ollamaStatus = StatusAfterCheck(checks[Len(checks)])

-----------------------------------------------------------------------------
\* The workflow whose job wrote the error on display, if a job did.
ErrorOwners ==
  IF errorFrom # <<>> /\ errorFrom[1].by \in Workflows
  THEN {errorFrom[1].by} ELSE {}

\* C19 (as stated): an error produced by a job of one workflow stays on
\* display until that same workflow is submitted again: a step that changes
\* the error display is an accepted submit of the workflow that owns it.
C19_OriginalStep ==
  \A w \in ErrorOwners :
    (app = "hosted" /\ error' # error) => (SubmitStep(w) /\ Accepted)
C19_Original == [][C19_OriginalStep]_vars

\* C19 (amended): the hosted app has one error display for both workflows
\* and the downloads.  It changes only when a submit of either workflow is
\* accepted (cleared), when a job of either workflow fails (set to that
\* job's message) or when a download fails (set to "Failed to download
\* PDF"); every accepted submit clears it, and a job or a download that
\* succeeds, a form edit and a tab switch leave it as it is.
C19_ErrorWrittenStep ==
  (app = "hosted" /\ error' # error) =>
    \/ \E w \in Workflows : SubmitStep(w) /\ Accepted /\ error' = <<>>
    \/ /\ Len(jobs') < Len(jobs)
       /\ ErrorOwners' # {}
       /\ error' = <<ErrorMessage(errorFrom'[1].by, errorFrom'[1].ans)>>
    \/ /\ DownloadEnds
       /\ error' = <<"Failed to download PDF">>
C19_SubmitClearsStep ==
  \A w \in Workflows :
    (app = "hosted" /\ SubmitStep(w) /\ Accepted) =>
      (error' = <<>> /\ errorFrom' = <<>>)
C19_SuccessKeepsStep ==
  \A w \in Workflows :
    (app = "hosted" /\ SuccessStep(w)) => error' = error
C19_Amended ==
  [][C19_ErrorWrittenStep /\ C19_SubmitClearsStep /\ C19_SuccessKeepsStep]_vars

\* The error of a failed questions job is on display next to the stored
\* result of a SWOT job, submitted on the other tab.
C19_Witness ==
  /\ app = "hosted"
  /\ ErrorOwners = {"questions"}
  /\ error = <<"Business name not found">>
  /\ questionsResult = <<>> /\ ~questionsLoading
  /\ swotResult # <<>> /\ ~swotLoading

-----------------------------------------------------------------------------
\* The business names of the requests whose answer a stored result of
\* workflow w can be.
GeneratedFor(w) ==
  IF w = "questions"
  THEN {n \in Names : questions = QuestionsFor(n)}
  ELSE {n \in SwotNames : swotAnalysis = SwotFor(n)}

\* C20 (as stated): whenever a stored result is handed to a save command,
\* the business name handed over with it is the business name of the
\* request that generated the result.
C20_Original ==
  (app = "local" /\ lastSave # <<>> /\ lastSave[1].sent) =>
    /\ lastSave[1].content = StoredResult(lastSave[1].wf)[1]
    /\ lastSave[1].name \in GeneratedFor(lastSave[1].wf)

=============================================================================
